---- MODULE Spec2Model ----
(***************************************************************************)
(* Lead-management CRM: the request handlers of dashboards/views.py over   *)
(* the tables of crm_leads/models.py (Lead, LeadActivity, Note).           *)
(*                                                                         *)
(* The views open no transaction (no transaction.atomic), so every ORM     *)
(* call (get_object_or_404, save, objects.create, exists) commits on its   *)
(* own: a handler is a sequence of steps, one per ORM call, and the        *)
(* Python code between two calls belongs to the step of the call that      *)
(* follows it.  Handlers of different requests interleave between steps.   *)
(***************************************************************************)
EXTENDS Integers, Sequences, FiniteSets, TLC

\* ------------------------------------------------------------------ bounds
\* rows of the activity ledger in a run where requests overlap
MaxRaceActivities == 4
\* rows of the activity ledger in a run where requests come one at a time
MaxSeqActivities == 7
\* rows of the ledger that record no transition (actions, notes) up to which
\* a request that changes no status is taken
MaxPlain == 1
\* the same, in a run where requests overlap
MaxRacePlain == 0
\* assignments of leads
MaxAssigns == 2
\* rows of the ledger in a run of log_activity requests of every type
MaxLogActivities == 4
\* rows of the ledger in a run over two leads
MaxBoardActivities == 6
\* leads and rows on their way to the table in a run of imports
MaxImported == 3
\* rows of an imported file
MaxFileRows == 2

\* ------------------------------------------------------------- text values
\* A text is a sequence of characters.  Two values of a CSV field are not
\* texts: the key is not in the row (no such column), or the reader put
\* None there (the row is shorter than the header).
KeyMissing == <<"<no key>">>
NoneValue == <<"<None>">>
Blank == " "

RECURSIVE LStrip(_)
LStrip(s) == IF s # <<>> /\ Head(s) = Blank THEN LStrip(Tail(s)) ELSE s

RECURSIVE RStrip(_)
RStrip(s) ==
    IF s # <<>> /\ s[Len(s)] = Blank THEN RStrip(SubSeq(s, 1, Len(s) - 1)) ELSE s

\* str.strip()
Strip(s) == RStrip(LStrip(s))

LowerChar(c) ==
    CASE c = "W" -> "w"
      [] c = "M" -> "m"
      [] OTHER -> c

\* str.lower()
Lower(s) == [i \in 1..Len(s) |-> LowerChar(s[i])]

\* ------------------------------------------------------------------ schema
\* NULL of a nullable DateTimeField; the clock starts above it
Null == 0
\* NULL of the assigned_to foreign key, and "no user" in a request slot
NoUser == "none"

STATUS_CHOICES == {"new", "assigned", "contacted", "awaiting", "closed", "lost"}

SOURCE_CHOICES == {<<"w", "a">>, <<"w", "e", "b">>, <<"m", "a", "n">>}

ACTIVITY_TYPES == {"call", "whatsapp", "email", "note", "status"}

\* the auth users of the deployment: one staff superuser, two sales agents
Users == {"admin", "alice", "bob"}

is_admin(user) == user \in {"admin"}

is_sales_agent(user) == user \in {"alice", "bob"} \/ user \in {"admin"}

\* a Lead row as Lead.objects.create(...) makes it
NewLead(full_name, email, phone, source, now) ==
    [full_name |-> full_name, email |-> email, phone |-> phone,
     source |-> source, status |-> "new", assigned_to |-> NoUser,
     assigned_at |-> Null, contacted_at |-> Null, awaiting_at |-> Null,
     closed_at |-> Null, created_at |-> now, updated_at |-> now]

\* the local variable `lead` of a handler that holds no lead yet
NoLead ==
    [full_name |-> <<>>, email |-> <<>>, phone |-> <<>>, source |-> <<>>,
     status |-> "", assigned_to |-> NoUser, assigned_at |-> Null,
     contacted_at |-> Null, awaiting_at |-> Null, closed_at |-> Null,
     created_at |-> Null, updated_at |-> Null]

\* a LeadActivity row
Activity(lead_id, user, activity_type, message, now) ==
    [lead |-> lead_id, user |-> user, activity_type |-> activity_type,
     message |-> message, created_at |-> now]

\* a Note row
NoteRow(lead_id, user, content, now) ==
    [lead |-> lead_id, user |-> user, content |-> content, created_at |-> now]

\* ------------------------------------------------------------------- state
VARIABLES
    leads,       \* table crm_leads_lead: row id -> Lead row (ids are 1..Len)
    activities,  \* table crm_leads_leadactivity, in insertion order
    notes,       \* table crm_leads_note, in insertion order
    clock,       \* timezone.now(), read by every write
    req,         \* request slot -> the locals of the handler running in it
    response,    \* the response on its way to the client
    succeeded    \* lead id -> status-changing requests answered with success

vars == <<leads, activities, notes, clock, req, response, succeeded>>

Slots == {"h1", "h2"}

\* a slot in which no handler runs
Idle ==
    [op |-> "idle", pc |-> "idle", user |-> NoUser, lead_id |-> 0,
     lead |-> NoLead, agent |-> NoUser, old_agent |-> NoUser,
     activity_type |-> "", message |-> <<>>, new_stage |-> "",
     old_stage |-> "", rows |-> <<>>, row |-> NoLead,
     created_count |-> 0, error_count |-> 0, errors |-> <<>>]

\* an HTTP response: the view, the lead the request named, the status code
\* and what the body says
Response(op, lead_id, code, body) ==
    [op |-> op, lead_id |-> lead_id, code |-> code,
     body |-> body, created_count |-> 0, error_count |-> 0, errors |-> <<>>]

NoResponse == Response("none", 0, 0, "")

LeadIds == 1..Len(leads)

\* the lead ids a request may name: every lead, and one that is missing
LeadIdInputs == 1..(Len(leads) + 1)

\* the agent ids a request may name: none, the sales agents, one that is missing
AgentIdInputs == {"", "alice", "bob", "nobody"}

Init ==
    /\ leads = <<>>
    /\ activities = <<>>
    /\ notes = <<>>
    /\ clock = 1
    /\ req = [h \in Slots |-> Idle]
    /\ response = NoResponse
    /\ succeeded = <<>>

\* ------------------------------------------------------------ ORM helpers
\* get_object_or_404(Lead, id=lead_id): does the row exist
LeadExists(lead_id) == lead_id \in LeadIds

\* mutant: the lookup leaves out assigned_to
OwnedLeadExistsAnyOwner(lead_id, user) == lead_id \in 1..Len(leads)

\* get_object_or_404(Lead, id=lead_id, assigned_to=request.user): does it match
OwnedLeadExists(lead_id, user) ==
    lead_id \in LeadIds /\ leads[lead_id].assigned_to = user

\* get_object_or_404(User, id=agent_id): does the row exist
UserExists(agent_id) == agent_id \in Users

\* lead.save(): UPDATE of every column of the row from the handler's copy
Save(lead_id, lead) == [leads EXCEPT ![lead_id] = lead]

\* ------------------------------------------------------- bounds of a run
\* rows of the ledger a handler in this state is yet to append
PendingRows(r) ==
    CASE r.op = "log_activity" /\ r.pc = "log_status" -> 2
      [] r.op \in {"idle", "import_csv"} -> 0
      [] OTHER -> 1

RECURSIVE SumPending(_)
SumPending(S) ==
    IF S = {} THEN 0
    ELSE LET h == CHOOSE x \in S : TRUE
         IN  PendingRows(req[h]) + SumPending(S \ {h})

\* n more rows, besides those of the handlers in the slots S, fit the bound max
Room(S, n, max) == Len(activities) + SumPending(S) + n <= max

\* the messages of the rows that record a change of status
IsTransitionMessage(message) ==
    /\ message # <<>>
    /\ message[1] \in {"Stage changed from", "Lead was contacted",
                        "Lead assigned to", "Lead reassigned from"}

IsAssignMessage(message) ==
    /\ message # <<>>
    /\ message[1] \in {"Lead assigned to", "Lead reassigned from"}

\* rows of the ledger that record no change of status
PlainRows ==
    Cardinality({i \in 1..Len(activities) : ~IsTransitionMessage(activities[i].message)})

\* assignments logged or on their way
Assigns ==
    Cardinality({i \in 1..Len(activities) : IsAssignMessage(activities[i].message)})
    + Cardinality({h \in Slots : req[h].op = "assign_lead"})

\* the handler of slot h ends: its response goes out, the slot is free
Reply(h, r) ==
    /\ response' = r
    /\ req' = [req EXCEPT ![h] = Idle]

\* a request arrives at slot h and its handler gets as far as the locals r
Begin(h, r) ==
    /\ req' = [req EXCEPT ![h] = r]
    /\ UNCHANGED response

\* the client receives the response
Deliver ==
    /\ response # NoResponse
    /\ response' = NoResponse
    /\ UNCHANGED <<leads, activities, notes, clock, req, succeeded>>

\* ------------------------------------------------------------ assign_lead
AssignedMessage(agent) == <<"Lead assigned to", agent>>

ReassignedMessage(old_agent, agent) == <<"Lead reassigned from", old_agent, "to", agent>>

\* views.py 157-158: user_passes_test sends a user who fails the test to the
\* login page before the view reads the request
Refused(h, op, user, passes) ==
    /\ req[h].pc = "idle"
    /\ ~passes
    /\ Reply(h, Response(op, 0, 302, "login"))
    /\ UNCHANGED <<leads, activities, notes, clock, succeeded>>

\* views.py 165-177: body parsing, the required fields (a request without
\* agent_id stands for both), the two lookups
AssignLeadGet(h, user, lead_id, agent_id, b) ==
    /\ req[h].pc = "idle"
    /\ is_admin(user)
    /\ UNCHANGED <<leads, activities, notes, clock, succeeded>>
    /\ IF agent_id = ""
       THEN Reply(h, Response("assign_lead", lead_id, 400, "missing"))
       ELSE IF ~LeadExists(lead_id) \/ ~UserExists(agent_id)
       THEN \* Http404 is caught by `except Exception`
            Reply(h, Response("assign_lead", lead_id, 500, "error"))
       ELSE /\ Room(Slots, 1, b.rows) /\ Assigns < b.assigns
            \* the two sales agents are alike: a run and the run with their
            \* names swapped are the same run, so the first lead goes to alice
            /\ Assigns = 0 => agent_id = "alice"
            /\ Begin(h,
                        [Idle EXCEPT !.op = "assign_lead", !.pc = "save",
                                     !.user = user, !.lead_id = lead_id,
                                     !.lead = leads[lead_id], !.agent = agent_id])

\* mutant: the agent changes and the status stays
AssignFieldsKeepStatus(lead, agent, now) ==
    [lead EXCEPT !.assigned_to = agent, !.assigned_at = now, !.updated_at = now]

\* the fields assign_lead sets on its copy of the lead (views.py 181-183)
AssignFields(lead, agent, now) ==
    [lead EXCEPT !.assigned_to = agent, !.status = "assigned",
                 !.assigned_at = now, !.updated_at = now]

\* views.py 180-184
AssignLeadSave(h) ==
    /\ req[h].op = "assign_lead" /\ req[h].pc = "save"
    /\ LET r == req[h]
           lead == AssignFields(r.lead, r.agent, clock)
       IN  /\ leads' = Save(r.lead_id, lead)
           /\ req' = [req EXCEPT ![h] =
                       [r EXCEPT !.old_agent = r.lead.assigned_to,
                                 !.lead = lead, !.pc = "log"]]
    /\ clock' = clock + 1
    /\ UNCHANGED <<activities, notes, response, succeeded>>

\* the message of the activity assign_lead logs (views.py 187-189)
AssignMessage(old_agent, agent) ==
    IF old_agent # NoUser THEN ReassignedMessage(old_agent, agent)
    ELSE AssignedMessage(agent)

\* mutant: an assignment to the agent the lead already has is not logged
AssignLeadLogSkipSame(h) ==
    /\ req[h].op = "assign_lead" /\ req[h].pc = "log"
    /\ LET r == req[h]
       IN  /\ activities' =
                 IF r.old_agent = r.agent THEN activities
                 ELSE Append(activities,
                             Activity(r.lead_id, r.user, "status",
                                      AssignMessage(r.old_agent, r.agent), clock))
           /\ succeeded' = [succeeded EXCEPT ![r.lead_id] = @ + 1]
           /\ Reply(h, Response("assign_lead", r.lead_id, 200, "ok"))
    /\ clock' = clock + 1
    /\ UNCHANGED <<leads, notes>>

\* views.py 186-203
AssignLeadLog(h) ==
    /\ req[h].op = "assign_lead" /\ req[h].pc = "log"
    /\ LET r == req[h]
       IN  /\ activities' = Append(activities,
                 Activity(r.lead_id, r.user, "status",
                          AssignMessage(r.old_agent, r.agent), clock))
           /\ succeeded' = [succeeded EXCEPT ![r.lead_id] = @ + 1]
           /\ Reply(h, Response("assign_lead", r.lead_id, 200, "ok"))
    /\ clock' = clock + 1
    /\ UNCHANGED <<leads, notes>>

\* ---------------------------------------------------- mark_lead_contacted
\* views.py 429-436
MarkLeadContactedGet(h, user, lead_id, b) ==
    /\ req[h].pc = "idle"
    /\ UNCHANGED <<leads, activities, notes, clock, succeeded>>
    /\ IF ~OwnedLeadExists(lead_id, user)
       THEN Reply(h, Response("mark_lead_contacted", lead_id, 404, "not_found"))
       ELSE /\ Room(Slots, 1, b.rows)
            /\ Begin(h,
                        [Idle EXCEPT !.op = "mark_lead_contacted", !.pc = "save",
                                     !.user = user, !.lead_id = lead_id,
                                     !.lead = leads[lead_id]])

\* mutant: the label of the choice is written, not its key
ContactedFieldsLabel(lead, now) ==
    [lead EXCEPT !.status = "Contacted", !.updated_at = now]

\* the fields mark_lead_contacted sets on its copy of the lead (views.py 438)
ContactedFields(lead, now) ==
    [lead EXCEPT !.status = "contacted", !.updated_at = now]

\* views.py 438-439
MarkLeadContactedSave(h) ==
    /\ req[h].op = "mark_lead_contacted" /\ req[h].pc = "save"
    /\ LET r == req[h]
           lead == ContactedFields(r.lead, clock)
       IN  /\ leads' = Save(r.lead_id, lead)
           /\ req' = [req EXCEPT ![h] = [r EXCEPT !.lead = lead, !.pc = "log"]]
    /\ clock' = clock + 1
    /\ UNCHANGED <<activities, notes, response, succeeded>>

ContactedMessage == <<"Lead was contacted">>

\* mutant: the answer goes out and no row is written
MarkLeadContactedLogNoRow(h) ==
    /\ req[h].op = "mark_lead_contacted" /\ req[h].pc = "log"
    /\ succeeded' = [succeeded EXCEPT ![req[h].lead_id] = @ + 1]
    /\ Reply(h, Response("mark_lead_contacted", req[h].lead_id, 200, "ok"))
    /\ clock' = clock + 1
    /\ UNCHANGED <<leads, activities, notes>>

\* views.py 441-448
MarkLeadContactedLog(h) ==
    /\ req[h].op = "mark_lead_contacted" /\ req[h].pc = "log"
    /\ LET r == req[h]
       IN  /\ activities' = Append(activities,
                 Activity(r.lead_id, r.user, "status", ContactedMessage, clock))
           /\ succeeded' = [succeeded EXCEPT ![r.lead_id] = @ + 1]
           /\ Reply(h, Response("mark_lead_contacted", r.lead_id, 200, "ok"))
    /\ clock' = clock + 1
    /\ UNCHANGED <<leads, notes>>

\* ---------------------------------------------------------- add_lead_note
\* views.py 454-465 and, for an empty note_text, 479
AddLeadNoteGet(h, user, lead_id, note_text, b) ==
    /\ req[h].pc = "idle"
    /\ UNCHANGED <<leads, activities, notes, clock, succeeded>>
    /\ IF ~OwnedLeadExists(lead_id, user)
       THEN Reply(h, Response("add_lead_note", lead_id, 404, "not_found"))
       ELSE IF note_text = <<>>
       THEN Reply(h, Response("add_lead_note", lead_id, 302, "empty"))
       ELSE /\ Room(Slots, 1, b.rows) /\ PlainRows < b.plain
            /\ Begin(h,
                        [Idle EXCEPT !.op = "add_lead_note", !.pc = "note",
                                     !.user = user, !.lead_id = lead_id,
                                     !.lead = leads[lead_id], !.message = note_text])

\* views.py 466-470
AddLeadNoteCreate(h) ==
    /\ req[h].op = "add_lead_note" /\ req[h].pc = "note"
    /\ LET r == req[h]
       IN  /\ notes' = Append(notes, NoteRow(r.lead_id, r.user, r.message, clock))
           /\ req' = [req EXCEPT ![h] = [r EXCEPT !.pc = "log"]]
    /\ clock' = clock + 1
    /\ UNCHANGED <<leads, activities, response, succeeded>>

\* mutant: the ledger row carries a fixed message instead of the note's text
AddLeadNoteLogFixedMessage(h) ==
    /\ req[h].op = "add_lead_note" /\ req[h].pc = "log"
    /\ LET r == req[h]
       IN  /\ activities' = Append(activities,
                 Activity(r.lead_id, r.user, "note", <<"Note added">>, clock))
           /\ Reply(h, Response("add_lead_note", r.lead_id, 302, "ok"))
    /\ clock' = clock + 1
    /\ UNCHANGED <<leads, notes, succeeded>>

\* views.py 472-479
AddLeadNoteLog(h) ==
    /\ req[h].op = "add_lead_note" /\ req[h].pc = "log"
    /\ LET r == req[h]
       IN  /\ activities' = Append(activities,
                 Activity(r.lead_id, r.user, "note", r.message, clock))
           /\ Reply(h, Response("add_lead_note", r.lead_id, 302, "ok"))
    /\ clock' = clock + 1
    /\ UNCHANGED <<leads, notes, succeeded>>

\* ----------------------------------------------------------- log_activity
\* the activity_type values a request may carry: none, one of ACTIVITY_TYPES,
\* one the check of views.py 518 refuses
ActivityTypeInputs == {"", "status", "fax"}

\* the new_stage values a request may carry: none, the six statuses, one unknown
StageInputs == {""} \cup STATUS_CHOICES \cup {"qualified"}

MessageInputs == {<<"called">>}

\* views.py 518: the activity types log_activity accepts
AcceptedActivityType(activity_type) ==
    activity_type \in ACTIVITY_TYPES \/ activity_type \in {"contacted"}

\* mutant: the table lets an assigned lead skip a stage
AllowedTransitionsSkipping(current_stage) ==
    CASE current_stage = "assigned" -> {"contacted", "awaiting"}
      [] current_stage = "contacted" -> {"awaiting"}
      [] current_stage = "awaiting" -> {"closed", "lost"}
      [] OTHER -> {}

\* views.py 543-551: allowed_transitions.get(current_stage, [])
AllowedTransitions(current_stage) ==
    CASE current_stage = "assigned" -> {"contacted"}
      [] current_stage = "contacted" -> {"awaiting"}
      [] current_stage = "awaiting" -> {"closed", "lost"}
      [] current_stage = "closed" -> {}
      [] current_stage = "lost" -> {}
      [] OTHER -> {}

\* views.py 534-535
ValidStage(new_stage) == new_stage \in STATUS_CHOICES

StageChangedMessage(old_stage, new_stage) ==
    <<"Stage changed from", old_stage, "to", new_stage>>

\* views.py 499-529: body parsing, the required fields (a request without
\* activity_type stands for both), the check of the activity type, the lookup
\* of the caller's lead
LogActivityGet(h, user, lead_id, activity_type, b) ==
    /\ req[h].pc = "idle"
    /\ is_sales_agent(user)
    /\ UNCHANGED <<leads, activities, notes, clock, succeeded>>
    /\ IF activity_type = ""
       THEN Reply(h, Response("log_activity", lead_id, 400, "missing"))
       ELSE IF ~AcceptedActivityType(activity_type)
       THEN Reply(h, Response("log_activity", lead_id, 400, "invalid_type"))
       ELSE IF ~OwnedLeadExists(lead_id, user)
       THEN \* Http404 is no Lead.DoesNotExist: `except Exception` answers
            Reply(h, Response("log_activity", lead_id, 500, "error"))
       ELSE /\ Room(Slots, 1, b.rows)
            /\ Begin(h,
                        [Idle EXCEPT !.op = "log_activity", !.pc = "stage",
                                     !.user = user, !.lead_id = lead_id,
                                     !.lead = leads[lead_id],
                                     !.activity_type = activity_type])

\* mutant: a stage change releases the lead from its agent
StageFieldsRelease(lead, new_stage, now) ==
    [lead EXCEPT !.status = new_stage, !.assigned_to = NoUser, !.updated_at = now]

\* the fields log_activity sets on its copy of the lead (views.py 558)
StageFields(lead, new_stage, now) ==
    [lead EXCEPT !.status = new_stage, !.updated_at = now]

\* views.py 571-579: the row of the action itself, and the answer
LogActivityAction(h, r) ==
    /\ activities' = Append(activities,
          Activity(r.lead_id, r.user, r.activity_type, r.message, clock))
    /\ Reply(h, Response("log_activity", r.lead_id, 200, "ok"))
    /\ clock' = clock + 1

\* views.py 532-559, and 571-579 when the request carries no new_stage.
\* message and new_stage are fields of the request body that this step is the
\* first to use.
LogActivityStage(h, message, new_stage, b) ==
    /\ req[h].op = "log_activity" /\ req[h].pc = "stage"
    /\ LET r == [req[h] EXCEPT !.message = message, !.new_stage = new_stage]
       IN  IF new_stage = ""
           THEN /\ PlainRows < b.plain
                /\ LogActivityAction(h, r)
                /\ UNCHANGED <<leads, notes, succeeded>>
           ELSE IF ~ValidStage(new_stage)
           THEN /\ Reply(h, Response("log_activity", r.lead_id, 400, "invalid_stage"))
                /\ UNCHANGED <<leads, activities, notes, clock, succeeded>>
           ELSE IF new_stage \notin AllowedTransitions(r.lead.status)
           THEN /\ Reply(h, Response("log_activity", r.lead_id, 400, "invalid_transition"))
                /\ UNCHANGED <<leads, activities, notes, clock, succeeded>>
           ELSE LET lead == StageFields(r.lead, new_stage, clock)
                IN  /\ Room(Slots \ {h}, 2, b.rows)
                    /\ leads' = Save(r.lead_id, lead)
                    /\ req' = [req EXCEPT ![h] =
                                [r EXCEPT !.old_stage = r.lead.status,
                                          !.lead = lead, !.pc = "log_status"]]
                    /\ clock' = clock + 1
                    /\ UNCHANGED <<activities, notes, response, succeeded>>

\* views.py 562-568
LogActivityLogStatus(h) ==
    /\ req[h].op = "log_activity" /\ req[h].pc = "log_status"
    /\ LET r == req[h]
       IN  /\ activities' = Append(activities,
                 Activity(r.lead_id, r.user, "status",
                          StageChangedMessage(r.old_stage, r.new_stage), clock))
           /\ req' = [req EXCEPT ![h] = [r EXCEPT !.pc = "log_action"]]
    /\ clock' = clock + 1
    /\ UNCHANGED <<leads, notes, response, succeeded>>

\* mutant: after a stage change the answer goes out without the action row
LogActivityLogActionNoRow(h) ==
    /\ req[h].op = "log_activity" /\ req[h].pc = "log_action"
    /\ Reply(h, Response("log_activity", req[h].lead_id, 200, "ok"))
    /\ clock' = clock + 1
    /\ succeeded' = [succeeded EXCEPT ![req[h].lead_id] = @ + 1]
    /\ UNCHANGED <<leads, activities, notes>>

\* views.py 570-579, after a stage change
LogActivityLogAction(h) ==
    /\ req[h].op = "log_activity" /\ req[h].pc = "log_action"
    /\ LogActivityAction(h, req[h])
    /\ succeeded' = [succeeded EXCEPT ![req[h].lead_id] = @ + 1]
    /\ UNCHANGED <<leads, notes>>

\* ------------------------------------------------------------- import_csv
\* views.py 280: errors[:10]
ErrorsShown == 10

\* row.get(key, default)
RowGet(row, key, default) == IF row[key] = KeyMissing THEN default ELSE row[key]

\* a row raises in views.py 240-243 when a field it strips is None
RowRaises(row) ==
    \E key \in {"full_name", "email", "phone", "source"} : row[key] = NoneValue

\* mutant: an empty email is stored as the empty string
ParsedRowEmptyEmail(row) ==
    LET full_name == Strip(RowGet(row, "full_name", <<>>))
        email == Strip(RowGet(row, "email", <<>>))
        phone == Strip(RowGet(row, "phone", <<>>))
        source == Lower(Strip(RowGet(row, "source", <<"m", "a", "n">>)))
    IN  NewLead(full_name,
                email,
                phone,
                IF source \notin SOURCE_CHOICES THEN <<"m", "a", "n">> ELSE source,
                Null)

\* views.py 240-254 and 263-269: the lead a row describes
ParsedRow(row) ==
    LET full_name == Strip(RowGet(row, "full_name", <<>>))
        email == Strip(RowGet(row, "email", <<>>))
        phone == Strip(RowGet(row, "phone", <<>>))
        source == Lower(Strip(RowGet(row, "source", <<"m", "a", "n">>)))
    IN  NewLead(full_name,
                IF email # <<>> THEN email ELSE NoneValue,
                phone,
                IF source \notin SOURCE_CHOICES THEN <<"m", "a", "n">> ELSE source,
                Null)

\* Lead.objects.filter(phone=phone).exists()
PhoneExists(phone) == \E id \in LeadIds : leads[id].phone = phone

\* the row of the file of the lifecycle runs: one person, no source column
LifecycleRow ==
    [full_name |-> <<"A">>, email |-> <<>>, phone |-> <<"5">>, source |-> KeyMissing]

\* the files of the lifecycle runs
LifecycleFiles == {<<LifecycleRow>>}

\* views.py 224-236: the file, the counters
ImportCsvStart(h, user, has_file, rows) ==
    /\ req[h].pc = "idle"
    /\ is_admin(user)
    /\ UNCHANGED <<leads, activities, notes, clock, succeeded>>
    /\ IF ~has_file
       THEN Reply(h, Response("import_csv", 0, 400, "no_file"))
       ELSE Begin(h,
                        [Idle EXCEPT !.op = "import_csv", !.pc = "row",
                                     !.user = user, !.rows = rows])

\* views.py 238-260 for the next row, and 276-281 when no row is left
ImportCsvRow(h) ==
    /\ req[h].op = "import_csv" /\ req[h].pc = "row"
    /\ UNCHANGED <<leads, activities, notes, clock, succeeded>>
    /\ LET r == req[h]
       IN  IF r.rows = <<>>
           THEN Reply(h, [Response("import_csv", 0, 200, "ok") EXCEPT
                            !.created_count = r.created_count,
                            !.error_count = r.error_count,
                            !.errors = SubSeq(r.errors, 1,
                                IF Len(r.errors) < ErrorsShown THEN Len(r.errors)
                                ELSE ErrorsShown)])
           ELSE LET row == Head(r.rows)
                    rest == [r EXCEPT !.rows = Tail(r.rows)]
                    Skip(error) ==
                        /\ req' = [req EXCEPT ![h] =
                                    [rest EXCEPT !.error_count = @ + 1,
                                                 !.errors = Append(@, error)]]
                        /\ UNCHANGED response
                IN  IF RowRaises(row)
                    THEN Skip(<<"Error processing row">>)
                    ELSE IF ParsedRow(row).full_name = <<>> \/ ParsedRow(row).phone = <<>>
                    THEN Skip(<<"Row skipped: missing name or phone">>)
                    ELSE IF PhoneExists(ParsedRow(row).phone)
                    THEN Skip(<<"Lead with phone", ParsedRow(row).phone, "already exists">>)
                    ELSE /\ req' = [req EXCEPT ![h] =
                                     [rest EXCEPT !.row = ParsedRow(row), !.pc = "create"]]
                         /\ UNCHANGED response

\* views.py 262-270
ImportCsvCreate(h) ==
    /\ req[h].op = "import_csv" /\ req[h].pc = "create"
    /\ LET r == req[h]
       IN  /\ leads' = Append(leads,
                 [r.row EXCEPT !.created_at = clock, !.updated_at = clock])
           /\ succeeded' = Append(succeeded, 0)
           /\ req' = [req EXCEPT ![h] =
                       [r EXCEPT !.created_count = @ + 1, !.row = NoLead, !.pc = "row"]]
    /\ clock' = clock + 1
    /\ UNCHANGED <<activities, notes, response>>

\* ----------------------------------------------------------- the system
\* the steps in slot h of the handlers that set the status of a lead, within
\* the bounds b
StatusHandler(h, b) ==
    \/ \E user \in Users, lead_id \in LeadIdInputs, agent_id \in AgentIdInputs :
          AssignLeadGet(h, user, lead_id, agent_id, b)
    \/ AssignLeadSave(h)
    \/ AssignLeadLog(h)
    \/ \E user \in Users, lead_id \in LeadIdInputs :
          MarkLeadContactedGet(h, user, lead_id, b)
    \/ MarkLeadContactedSave(h)
    \/ MarkLeadContactedLog(h)
    \/ \E user \in Users, lead_id \in LeadIdInputs, activity_type \in ActivityTypeInputs :
          LogActivityGet(h, user, lead_id, activity_type, b)
    \/ \E message \in MessageInputs, new_stage \in StageInputs :
          LogActivityStage(h, message, new_stage, b)
    \/ LogActivityLogStatus(h)
    \/ LogActivityLogAction(h)
    \/ \E user \in Users :
          \/ Refused(h, "assign_lead", user, is_admin(user))
          \/ Refused(h, "log_activity", user, is_sales_agent(user))

\* the steps in slot h of add_lead_note
NoteHandler(h, b) ==
    \/ \E user \in Users, lead_id \in LeadIdInputs, note_text \in {<<>>, <<"n">>} :
          AddLeadNoteGet(h, user, lead_id, note_text, b)
    \/ AddLeadNoteCreate(h)
    \/ AddLeadNoteLog(h)

\* the steps in slot h of the import of a file of the lifecycle runs
ImportHandler(h) ==
    \/ \E user \in Users, rows \in LifecycleFiles : ImportCsvStart(h, user, TRUE, rows)
    \/ \E user \in Users : ImportCsvStart(h, user, FALSE, <<>>)
    \/ \E user \in Users : Refused(h, "import_csv", user, is_admin(user))
    \/ ImportCsvRow(h)
    \/ ImportCsvCreate(h)

SeqBounds == [rows |-> MaxSeqActivities, plain |-> MaxPlain, assigns |-> MaxAssigns]

RaceBounds == [rows |-> MaxRaceActivities, plain |-> MaxRacePlain, assigns |-> MaxAssigns]

\* Requests arrive one at a time, each handled to its end before the next.
\* A response is received before the next request arrives.
Next ==
    \/ Deliver
    \/ /\ response = NoResponse
       /\ \/ StatusHandler("h1", SeqBounds)
          \/ NoteHandler("h1", SeqBounds)
          \/ ImportHandler("h1")

Spec == Init /\ [][Next]_vars

\* the store after the import of a file of one good row
InitRace ==
    /\ leads = <<NewLead(<<"A">>, NoneValue, <<"5">>, <<"m", "a", "n">>, 1)>>
    /\ activities = <<>>
    /\ notes = <<>>
    /\ clock = 2
    /\ req = [h \in Slots |-> Idle]
    /\ response = NoResponse
    /\ succeeded = <<0>>

\* Requests that set the status of the imported lead arrive while others are being handled (the
\* slots fill in order).  A response is received before the next step of any
\* handler.
NextRace ==
    \/ Deliver
    \/ /\ response = NoResponse
       /\ \E h \in Slots :
             /\ (h = "h2" /\ req[h].pc = "idle") => req["h1"].pc # "idle"
             /\ StatusHandler(h, RaceBounds)

SpecRace == InitRace /\ [][NextRace]_vars

\* ------------------------------------------------- concurrent imports
\* the rows of the imported files: a full row without a source column, the
\* same phone with a blank before it, another phone with a source in capitals,
\* one with an unknown source, a blank phone, and a short row (the reader puts
\* None in the fields the row does not have)
ImportRows ==
    {[full_name |-> <<"A">>, email |-> <<>>, phone |-> <<"5">>, source |-> KeyMissing],
     [full_name |-> <<"A">>, email |-> <<>>, phone |-> <<Blank, "5">>,
      source |-> <<"W", "e", "b">>],
     [full_name |-> <<"B">>, email |-> <<>>, phone |-> <<"6">>,
      source |-> <<"f", "a", "x">>],
     [full_name |-> <<"B">>, email |-> <<>>, phone |-> <<Blank>>, source |-> KeyMissing],
     [full_name |-> <<"C">>, email |-> <<>>, phone |-> <<"7">>, source |-> NoneValue]}

RECURSIVE FilesOfLength(_)
FilesOfLength(n) ==
    IF n = 0 THEN {<<>>}
    ELSE {Append(file, row) : file \in FilesOfLength(n - 1), row \in ImportRows}

\* the imported files: up to MaxFileRows rows
ImportFiles == UNION {FilesOfLength(n) : n \in 0..MaxFileRows}

\* rows of the files being imported that may still become leads
RowsAhead ==
    LET ahead(h) == IF req[h].op # "import_csv" THEN 0
                    ELSE Len(req[h].rows) + (IF req[h].pc = "create" THEN 1 ELSE 0)
    IN  ahead("h1") + ahead("h2")

\* the store starts empty; imports arrive while others are being handled (the
\* slots fill in order).  A response is received before the next step of any
\* handler.
NextImport ==
    \/ Deliver
    \/ /\ response = NoResponse
       /\ \E h \in Slots :
             /\ (h = "h2" /\ req[h].pc = "idle") => req["h1"].pc # "idle"
             /\ \/ \E rows \in ImportFiles :
                      /\ Len(leads) + RowsAhead + Len(rows) <= MaxImported
                      /\ ImportCsvStart(h, "admin", TRUE, rows)
                \/ ImportCsvStart(h, "admin", FALSE, <<>>)
                \/ \E user \in Users : Refused(h, "import_csv", user, is_admin(user))
                \/ ImportCsvRow(h)
                \/ ImportCsvCreate(h)

SpecImport == Init /\ [][NextImport]_vars

\* Imports arrive one at a time, each handled to its end before the next.
NextImportSeq ==
    \/ Deliver
    \/ /\ response = NoResponse
       /\ \/ \E rows \in ImportFiles :
                /\ Len(leads) + RowsAhead + Len(rows) <= MaxImported
                /\ ImportCsvStart("h1", "admin", TRUE, rows)
          \/ ImportCsvStart("h1", "admin", FALSE, <<>>)
          \/ \E user \in Users : Refused("h1", "import_csv", user, is_admin(user))
          \/ ImportCsvRow("h1")
          \/ ImportCsvCreate("h1")

SpecImportSeq == Init /\ [][NextImportSeq]_vars

\* ------------------------------------------- activities of every type
\* the activity_type values a request may carry: none, two of ACTIVITY_TYPES,
\* the other one the check of views.py 518 lets through, one it refuses
AllActivityTypeInputs == {"", "call", "status", "contacted", "fax"}

LogBounds == [rows |-> MaxLogActivities, plain |-> MaxLogActivities, assigns |-> 0]

\* the store after the import of a file of one good row and the assignment
\* of its lead to alice
InitOwned ==
    /\ leads = <<AssignFields(NewLead(<<"A">>, NoneValue, <<"5">>, <<"m", "a", "n">>, 1),
                              "alice", 2)>>
    /\ activities = <<Activity(1, "admin", "status", AssignedMessage("alice"), 3)>>
    /\ notes = <<>>
    /\ clock = 4
    /\ req = [h \in Slots |-> Idle]
    /\ response = NoResponse
    /\ succeeded = <<1>>

\* log_activity requests arrive one at a time, each handled to its end before
\* the next
NextLog ==
    \/ Deliver
    \/ /\ response = NoResponse
       /\ \/ \E user \in Users, lead_id \in LeadIdInputs,
                activity_type \in AllActivityTypeInputs :
                LogActivityGet("h1", user, lead_id, activity_type, LogBounds)
          \/ \E message \in MessageInputs, new_stage \in StageInputs :
                LogActivityStage("h1", message, new_stage, LogBounds)
          \/ LogActivityLogStatus("h1")
          \/ LogActivityLogAction("h1")

SpecLog == InitOwned /\ [][NextLog]_vars

\* ---------------------------------------------------------- dashboards
\* mutant: the rate is computed whatever the total
RateUnguarded(closed, total) == [num |-> closed * 100, den |-> total]

\* (closed / total) * 100 if total > 0 else 0, as the fraction num / den; a
\* den of 0 is a division by zero
Rate(closed, total) ==
    IF total > 0 THEN [num |-> closed * 100, den |-> total]
    ELSE [num |-> 0, den |-> 1]

\* Lead.objects.filter(assigned_to=user)
LeadsOf(user) == {id \in LeadIds : leads[id].assigned_to = user}

\* queryset.filter(status="closed").count()
ClosedCount(S) == Cardinality({id \in S : leads[id].status = "closed"})

\* views.py 41-49: conversion_rate of admin_dashboard
admin_conversion_rate == Rate(ClosedCount(LeadIds), Len(leads))

\* views.py 63-74: agent_conversion of admin_dashboard
agent_conversion(agent) ==
    Rate(ClosedCount(LeadsOf(agent)), Cardinality(LeadsOf(agent)))

\* views.py 379-388: conversion_rate of sales_dashboard
sales_conversion_rate(user) ==
    Rate(ClosedCount(LeadsOf(user)), Cardinality(LeadsOf(user)))

BoardBounds ==
    [rows |-> MaxBoardActivities, plain |-> MaxRacePlain, assigns |-> MaxAssigns]

\* the store after the import of a file of two good rows
InitBoard ==
    /\ leads = <<NewLead(<<"A">>, NoneValue, <<"5">>, <<"m", "a", "n">>, 1),
                 NewLead(<<"B">>, NoneValue, <<"6">>, <<"m", "a", "n">>, 2)>>
    /\ activities = <<>>
    /\ notes = <<>>
    /\ clock = 3
    /\ req = [h \in Slots |-> Idle]
    /\ response = NoResponse
    /\ succeeded = <<0, 0>>

\* requests that set the status of the two leads arrive one at a time
NextBoard ==
    \/ Deliver
    \/ /\ response = NoResponse
       /\ StatusHandler("h1", BoardBounds)

SpecBoard == InitBoard /\ [][NextBoard]_vars

\* ------------------------------------------------------------ properties
\* the six statuses of the lifecycle
SixStatuses == {"new", "assigned", "contacted", "awaiting", "closed", "lost"}

\* the four transitions of the lifecycle table open to an agent
LegalPairs ==
    {<<"assigned", "contacted">>, <<"contacted", "awaiting">>,
     <<"awaiting", "closed">>, <<"awaiting", "lost">>}

\* C1: a log_activity request with new_stage = to on the caller's lead, whose
\* status is from, writes the status to and goes on to answer 200 if (from, to)
\* is one of the four legal pairs; for every other pair of the six statuses it
\* answers 400 (invalid transition) and the leads are unchanged.
C1_TransitionLegality ==
    [][/\ \A h \in Slots, message \in MessageInputs, to \in SixStatuses :
             LogActivityStage(h, message, to, SeqBounds) =>
                 LET id == req[h].lead_id
                     from == leads[id].status
                 IN  IF <<from, to>> \in LegalPairs
                     THEN /\ leads'[id].status = to
                          /\ req'[h].pc = "log_status"
                     ELSE /\ response'.code = 400
                          /\ response'.body = "invalid_transition"
                          /\ leads' = leads /\ activities' = activities
       /\ \A g \in Slots : LogActivityLogAction(g) => response'.code = 200]_vars

\* C1 witness: awaiting -> lost was logged, and a later request for a
\* transition was refused
C1_Witness ==
    /\ \E i \in 1..Len(activities) :
          activities[i].message = StageChangedMessage("awaiting", "lost")
    /\ response.op = "log_activity" /\ response.body = "invalid_transition"

\* C2: the status of every lead is one of the six statuses.
C2_StatusInEnum == \A id \in LeadIds : leads[id].status \in SixStatuses

\* C2 witness: a lead was imported, assigned and moved on by mark_lead_contacted
\* and by log_activity, and a note was added
C2_Witness ==
    /\ \E id \in LeadIds : leads[id].status = "awaiting"
    /\ \E i \in 1..Len(activities) : activities[i].message = ContactedMessage
    /\ notes # <<>>

\* C3 (as claimed): once the status of a lead is closed or lost, the only step
\* that changes it is the save of assign_lead, which sets it to assigned.
C3_TerminalForAgents ==
    [][\A id \in LeadIds :
          (leads[id].status \in {"closed", "lost"} /\ leads'[id].status # leads[id].status)
          => /\ leads'[id].status = "assigned"
             /\ \E h \in Slots : /\ req[h].op = "assign_lead" /\ req[h].pc = "save"
                                 /\ req[h].lead_id = id]_vars

\* C4 (as claimed): mark_lead_contacted on the caller's lead whose status is
\* not assigned ends at once with a failure.
C4_MarkOnlyFromAssigned ==
    [][\A h \in Slots, user \in Users, lead_id \in LeadIds :
          (/\ MarkLeadContactedGet(h, user, lead_id, SeqBounds)
           /\ leads[lead_id].assigned_to = user
           /\ leads[lead_id].status # "assigned")
          => /\ req'[h] = Idle
             /\ response'.op = "mark_lead_contacted"
             /\ response'.code \in {400, 403, 404}]_vars

\* the request taken up in slot h ends in this step with a failure and the
\* tables are as before
RefusedUnchanged(h) ==
    /\ req'[h] = Idle
    /\ response'.code \in {400, 403, 404, 500}
    /\ UNCHANGED <<leads, activities, notes>>

\* a step in slot h that begins or answers a request for op
StepOf(h, op) == response'.op = op \/ req'[h].op = op

\* C5: a mark_lead_contacted, add_lead_note or log_activity request of a user
\* for a lead that is not assigned to that user fails and leaves leads, ledger
\* and notes as they were.
C5_NonOwnerRefused ==
    [][\A h \in Slots :
          /\ StepOf(h, "mark_lead_contacted") =>
                \A user \in Users, lead_id \in LeadIds :
                   (/\ leads[lead_id].assigned_to # user
                    /\ MarkLeadContactedGet(h, user, lead_id, SeqBounds))
                   => RefusedUnchanged(h)
          /\ StepOf(h, "add_lead_note") =>
                \A user \in Users, lead_id \in LeadIds, note_text \in {<<>>, <<"n">>} :
                   (/\ leads[lead_id].assigned_to # user
                    /\ AddLeadNoteGet(h, user, lead_id, note_text, SeqBounds))
                   => RefusedUnchanged(h)
          /\ StepOf(h, "log_activity") =>
                \A user \in Users, lead_id \in LeadIds,
                   activity_type \in ActivityTypeInputs :
                   (/\ leads[lead_id].assigned_to # user
                    /\ LogActivityGet(h, user, lead_id, activity_type, SeqBounds))
                   => RefusedUnchanged(h)]_vars

\* C5 witness: mark_lead_contacted was refused for a lead that exists and is
\* assigned to an agent, after the ledger got rows
C5_Witness ==
    /\ response.op = "mark_lead_contacted" /\ response.code = 404
    /\ response.lead_id \in LeadIds
    /\ leads[response.lead_id].assigned_to # NoUser
    /\ activities # <<>>

\* the rows of the ledger, by position, that record a change of the status of
\* lead id
TransitionRows(id) ==
    {i \in 1..Len(activities) :
        activities[i].lead = id /\ IsTransitionMessage(activities[i].message)}

\* the status a transition row says the lead moved to
RowTarget(a) ==
    CASE a.message[1] = "Stage changed from" -> a.message[4]
      [] a.message[1] = "Lead was contacted" -> "contacted"
      [] OTHER -> "assigned"

\* the status the ledger gives lead id: the target of its last transition row
LedgerStatus(id) ==
    IF TransitionRows(id) = {} THEN "new"
    ELSE RowTarget(activities[CHOOSE i \in TransitionRows(id) :
                                  \A j \in TransitionRows(id) : j <= i])

\* C6 (as claimed): in every state the status of a lead is the one its last
\* status row in the ledger records; no state has the new status without the row.
C6_StatusNeverAheadOfLedger ==
    \A id \in LeadIds : leads[id].status = LedgerStatus(id)

\* C7 (as claimed): mark_lead_contacted and log_activity write a new status
\* only while the lead still has the status they read and checked, so of two
\* requests that read the same occurrence of a status at most one goes through
\* and the ledger gets one transition row from that occurrence.
C7_OneTransitionPerOccurrence ==
    [][/\ \A h \in Slots :
             MarkLeadContactedSave(h)
             => leads[req[h].lead_id].status = req[h].lead.status
       /\ \A g \in Slots, message \in MessageInputs, new_stage \in STATUS_CHOICES :
             (LogActivityStage(g, message, new_stage, RaceBounds) /\ leads' # leads)
             => leads[req[g].lead_id].status = req[g].lead.status]_vars

\* log_activity handlers that have written the status row of a transition of
\* lead id and not yet its last row and the answer
Answering(id) ==
    {h \in Slots : /\ req[h].op = "log_activity" /\ req[h].pc = "log_action"
                   /\ req[h].lead_id = id}

\* C8: per lead, the transition rows are as many as the transitions that have
\* succeeded (plus those whose handler is yet to answer), and each is of type
\* status: one row per transition, neither more nor fewer.
C8_OneRowPerTransition ==
    \A id \in LeadIds :
        /\ Cardinality(TransitionRows(id)) = succeeded[id] + Cardinality(Answering(id))
        /\ \A i \in TransitionRows(id) : activities[i].activity_type = "status"

\* C8 witness: a lead with three transitions done, by assign_lead,
\* mark_lead_contacted and log_activity, the last with the caller's row after
\* the status row
C8_Witness ==
    \E id \in LeadIds :
        /\ succeeded[id] >= 3
        /\ \E i \in TransitionRows(id) : activities[i].message = ContactedMessage
        /\ \E i \in TransitionRows(id) :
              /\ activities[i].message[1] = "Stage changed from"
              /\ i < Len(activities)
              /\ activities[i + 1].message = <<"called">>

\* C9: whatever the status of the lead, the save of assign_lead sets
\* the agent, the status assigned and assigned_at, and its log appends one row of
\* type status, worded as a reassignment exactly when the lead had an agent.
C9_AssignFromAnyStatus ==
    [][\A h \in Slots :
          /\ AssignLeadSave(h) =>
                LET id == req[h].lead_id
                IN  /\ leads'[id].assigned_to = req[h].agent
                    /\ leads'[id].status = "assigned"
                    /\ leads'[id].assigned_at = clock /\ clock # Null
                    /\ req'[h].old_agent = leads[id].assigned_to
                    /\ activities' = activities
          /\ AssignLeadLog(h) =>
                /\ Len(activities') = Len(activities) + 1
                /\ SubSeq(activities', 1, Len(activities)) = activities
                /\ LET a == activities'[Len(activities')]
                   IN  /\ a.lead = req[h].lead_id
                       /\ a.activity_type = "status"
                       /\ a.message[1] = "Lead reassigned from" <=> req[h].old_agent # NoUser
                       /\ a.message[1] = "Lead assigned to" <=> req[h].old_agent = NoUser
                /\ response'.code = 200 /\ leads' = leads]_vars

\* C9 witness: a lead that was closed or lost is assigned again, to another
\* agent, with the reassignment as the last row of the ledger
C9_Witness ==
    /\ activities # <<>>
    /\ LET a == activities[Len(activities)]
       IN  /\ a.message[1] = "Lead reassigned from"
           /\ leads[a.lead].status = "assigned"
           /\ leads[a.lead].assigned_to = "bob"
           /\ \E i \in TransitionRows(a.lead) :
                 RowTarget(activities[i]) \in {"closed", "lost"}

\* C10 (as claimed): a lead whose status is contacted, awaiting or closed has
\* the timestamp of that milestone.
C10_MilestoneStamped ==
    \A id \in LeadIds :
        /\ leads[id].status = "contacted" => leads[id].contacted_at # Null
        /\ leads[id].status = "awaiting" => leads[id].awaiting_at # Null
        /\ leads[id].status = "closed" => leads[id].closed_at # Null

\* the status whose milestone a timestamp field records
MilestoneOf(field) ==
    CASE field = "assigned_at" -> "assigned"
      [] field = "contacted_at" -> "contacted"
      [] field = "awaiting_at" -> "awaiting"
      [] field = "closed_at" -> "closed"

\* C11 (as claimed): a milestone timestamp of a lead leaves NULL only in the
\* step that moves the lead to the status of that milestone, and a timestamp
\* that is set keeps its value in every later step.
C11_TimestampsSetOnce ==
    [][\A id \in LeadIds :
          \A field \in {"assigned_at", "contacted_at", "awaiting_at", "closed_at"} :
             /\ (leads[id][field] = Null /\ leads'[id][field] # Null)
                => leads'[id].status = MilestoneOf(field)
             /\ leads[id][field] # Null => leads'[id][field] = leads[id][field]]_vars

\* C12 (as claimed): no two leads of the store have the same phone.
C12_PhoneUnique ==
    \A i, j \in LeadIds : leads[i].phone = leads[j].phone => i = j

\* C13 (as claimed), per row: the handler either rejects the row with one more
\* error or goes on to create it, and goes on with the rest of the file; it
\* creates the row exactly when its trimmed name and phone are not empty and no
\* lead has that phone; and the answer lists the first ErrorsShown errors.
C13_ImportCounts ==
    [][\A h \in Slots :
          /\ (ImportCsvRow(h) /\ req[h].rows # <<>>) =>
                LET row == Head(req[h].rows)
                    full_name == IF row.full_name \in {KeyMissing, NoneValue} THEN <<>>
                                 ELSE Strip(row.full_name)
                    phone == IF row.phone \in {KeyMissing, NoneValue} THEN <<>>
                             ELSE Strip(row.phone)
                    wanted == /\ full_name # <<>> /\ phone # <<>>
                              /\ ~\E id \in LeadIds : leads[id].phone = phone
                IN  /\ req'[h].rows = Tail(req[h].rows)
                    /\ IF wanted
                       THEN /\ req'[h].pc = "create"
                            /\ req'[h].error_count = req[h].error_count
                       ELSE /\ req'[h].pc = "row"
                            /\ req'[h].error_count = req[h].error_count + 1
                            /\ Len(req'[h].errors) = Len(req[h].errors) + 1
          /\ ImportCsvCreate(h) =>
                /\ Len(leads') = Len(leads) + 1
                /\ req'[h].created_count = req[h].created_count + 1
                /\ req'[h].pc = "row"
          /\ (ImportCsvRow(h) /\ req[h].rows = <<>>) =>
                /\ response'.created_count = req[h].created_count
                /\ response'.error_count = req[h].error_count
                /\ Len(req[h].errors) = req[h].error_count
                /\ response'.errors =
                      SubSeq(req[h].errors, 1,
                             IF req[h].error_count < ErrorsShown
                             THEN req[h].error_count ELSE ErrorsShown)]_vars

\* C14 (as claimed): a row with a name and a new phone whose source is absent
\* (no such column, or no such field in the row) or is none of SOURCE_CHOICES
\* goes on to be created with source manual, and every lead of the store has a
\* source of SOURCE_CHOICES.
C14_SourceDefaultsToManual ==
    [][/\ \A h \in Slots :
             (ImportCsvRow(h) /\ req[h].rows # <<>>) =>
                LET row == Head(req[h].rows)
                    text(v) == IF v \in {KeyMissing, NoneValue} THEN <<>> ELSE Strip(v)
                    absent == row.source \in {KeyMissing, NoneValue}
                IN  (/\ text(row.full_name) # <<>> /\ text(row.phone) # <<>>
                     /\ ~\E id \in LeadIds : leads[id].phone = text(row.phone)
                     /\ absent \/ Lower(Strip(row.source)) \notin SOURCE_CHOICES)
                    => /\ req'[h].pc = "create"
                       /\ req'[h].row.source = <<"m", "a", "n">>
       /\ \A id \in 1..Len(leads') : leads'[id].source \in SOURCE_CHOICES]_vars

\* C15 (as claimed): every row of the ledger has an activity type of
\* ACTIVITY_TYPES, log_activity having refused every other type.
C15_ActivityTypeInEnum ==
    \A i \in 1..Len(activities) : activities[i].activity_type \in ACTIVITY_TYPES

\* C16 (as claimed): a log_activity request of an admin for a lead assigned to
\* someone else is not refused for the ownership: the handler goes on to the
\* stage change.
C16_AdminAdvancesAnyLead ==
    [][\A h \in Slots, user \in Users, lead_id \in LeadIds :
          (/\ is_admin(user)
           /\ leads[lead_id].assigned_to \notin {user, NoUser}
           /\ LogActivityGet(h, user, lead_id, "status", SeqBounds))
          => /\ req'[h].op = "log_activity" /\ req'[h].pc = "stage"
             /\ response' = NoResponse]_vars

\* C17: an assign_lead call that names the agent the lead was just assigned to
\* leaves assigned_to and status as the first call left them (agent, assigned),
\* and this call too appends exactly one row of type status.
C17_AssignIdempotent ==
    [][\A h \in Slots :
          LET id == req[h].lead_id
          IN  /\ (/\ AssignLeadSave(h)
                  /\ leads[id].assigned_to = req[h].agent
                  /\ leads[id].status = "assigned")
                 => /\ leads'[id].assigned_to = leads[id].assigned_to
                    /\ leads'[id].status = leads[id].status
              /\ (AssignLeadLog(h) /\ req[h].old_agent = req[h].agent)
                 => /\ Len(activities') = Len(activities) + 1
                    /\ activities'[Len(activities')].activity_type = "status"
                    /\ activities'[Len(activities')].lead = id
                    /\ leads'[id].assigned_to = req[h].agent
                    /\ leads'[id].status = "assigned"]_vars

\* C17 witness: the same assignment made twice in a row, both logged
C17_Witness ==
    /\ Len(activities) >= 2
    /\ LET n == Len(activities)
       IN  /\ activities[n].message = ReassignedMessage("alice", "alice")
           /\ activities[n - 1].message = AssignedMessage("alice")
           /\ activities[n].lead = activities[n - 1].lead
           /\ leads[activities[n].lead].assigned_to = "alice"
           /\ leads[activities[n].lead].status = "assigned"

\* C18 (as claimed): an assign_lead request of an admin that names a lead or an
\* agent that does not exist is answered 404 and changes no table.
C18_AssignMissingIsNotFound ==
    [][\A h \in Slots, user \in Users, lead_id \in LeadIdInputs,
          agent_id \in AgentIdInputs \ {""} :
          (/\ ~LeadExists(lead_id) \/ ~UserExists(agent_id)
           /\ AssignLeadGet(h, user, lead_id, agent_id, SeqBounds))
          => /\ response'.code = 404
             /\ UNCHANGED <<leads, activities, notes>>]_vars

\* C19 (as claimed): a log_activity request with an accepted activity_type for
\* a lead that does not exist or is not the caller's is answered 404 or 403.
C19_LogMissingIsNotFound ==
    [][\A h \in Slots, user \in Users, lead_id \in LeadIdInputs,
          activity_type \in ActivityTypeInputs \cap ACTIVITY_TYPES :
          (/\ ~OwnedLeadExists(lead_id, user)
           /\ LogActivityGet(h, user, lead_id, activity_type, SeqBounds))
          => response'.code \in {403, 404}]_vars

\* the rate is a fraction between 0 and 100, 0 when its total is 0, and no
\* division by zero made it
RateInRange(rate, closed, total) ==
    /\ rate.den > 0
    /\ 0 <= rate.num /\ rate.num <= 100 * rate.den
    /\ total = 0 => rate.num = 0
    /\ closed <= total

\* C20: in every store the conversion rate of the admin dashboard, the rate of
\* each agent in its table and the rate of the sales dashboard of each user are
\* 0 when there is no lead to divide by, and between 0 and 100 otherwise, the
\* closed leads being among those counted; nothing is divided by zero.
C20_RatesInRange ==
    /\ RateInRange(admin_conversion_rate, ClosedCount(LeadIds), Len(leads))
    /\ \A agent \in {"alice", "bob"} :
          RateInRange(agent_conversion(agent), ClosedCount(LeadsOf(agent)),
                      Cardinality(LeadsOf(agent)))
    /\ \A user \in Users :
          RateInRange(sales_conversion_rate(user), ClosedCount(LeadsOf(user)),
                      Cardinality(LeadsOf(user)))

\* C20 witness: alice's one lead is closed, the other lead is new: half of
\* all leads, all of hers, with nothing to divide by for bob
C20_Witness ==
    /\ admin_conversion_rate = [num |-> 100, den |-> 2]
    /\ agent_conversion("alice") = [num |-> 100, den |-> 1]
    /\ Cardinality(LeadsOf("bob")) = 0
    /\ sales_conversion_rate("bob") = [num |-> 0, den |-> 1]

\* C21 (as claimed): the assigned_to of a lead changes only in the save of an
\* assign_lead request for that lead; no save of mark_lead_contacted or
\* log_activity writes another agent there.
C21_OnlyAssignSetsAgent ==
    [][\A id \in LeadIds :
          leads'[id].assigned_to # leads[id].assigned_to
          => \E h \in Slots : /\ req[h].op = "assign_lead" /\ req[h].pc = "save"
                              /\ req[h].lead_id = id
                              /\ leads'[id].assigned_to = req[h].agent]_vars

\* C22: a log_activity request without new_stage that succeeds appends one row
\* of its activity type and leaves the leads alone; one with a legal new_stage
\* appends the status row and then, next to it, the row of the action; one
\* refused for its new_stage appends nothing and leaves the leads alone.
C22_LogActivityRows ==
    [][\A h \in Slots :
          LET r == req[h]
              n == Len(activities)
              grown == /\ Len(activities') = n + 1
                       /\ SubSeq(activities', 1, n) = activities
                       /\ activities'[n + 1].lead = r.lead_id
          IN  r.op = "log_activity" =>
              /\ (r.pc = "stage" /\ response'.code = 200)
                 => /\ grown /\ leads' = leads
                    /\ activities'[n + 1].activity_type = r.activity_type
              /\ (r.pc = "stage" /\ response'.code = 400)
                 => /\ response'.body \in {"invalid_stage", "invalid_transition"}
                    /\ activities' = activities /\ leads' = leads
              /\ (r.pc = "stage" /\ req'[h].pc = "log_status")
                 => activities' = activities
              /\ (r.pc = "log_status" /\ req'[h] # r)
                 => /\ grown /\ req'[h].pc = "log_action"
                    /\ activities'[n + 1].activity_type = "status"
                    /\ activities'[n + 1].message[1] = "Stage changed from"
              /\ (r.pc = "log_action" /\ req'[h] # r)
                 => /\ grown /\ response'.code = 200
                    /\ activities'[n + 1].activity_type = r.activity_type
                    /\ activities'[n + 1].message = r.message
                    /\ activities[n].message[1] = "Stage changed from"]_vars

\* C22 witness: a row logged without a stage change, later a stage change with
\* its two rows, answered with success
C22_Witness ==
    /\ response.op = "log_activity" /\ response.code = 200
    /\ Len(activities) >= 4
    /\ LET n == Len(activities)
       IN  /\ activities[n].message = <<"called">>
           /\ activities[n - 1].message[1] = "Stage changed from"
           /\ \E i \in 2..(n - 2) :
                 /\ activities[i].message = <<"called">>
                 /\ activities[i - 1].message[1] # "Stage changed from"

\* no request is being handled
Quiescent == \A h \in Slots : req[h].pc = "idle"

\* every note has a ledger row of type note with its lead, author and text
NotesMatched ==
    \A i \in DOMAIN notes :
       \E j \in DOMAIN activities :
          /\ activities[j].activity_type = "note"
          /\ activities[j].lead = notes[i].lead
          /\ activities[j].user = notes[i].user
          /\ activities[j].message = notes[i].content

\* C23: an add_lead_note request of the owner with a text adds one note, then
\* one ledger row of type note with the same lead, author and text, and
\* answers; with an empty text it adds neither; whenever no request is being
\* handled every note has its ledger row.
C23_NoteHasActivity ==
    [][/\ \A h \in Slots :
             LET r == req[h]
                 n == Len(activities)
                 k == Len(notes)
             IN  r.op = "add_lead_note" =>
                 /\ (r.pc = "note" /\ req'[h] # r)
                    => /\ activities' = activities /\ req'[h].pc = "log"
                       /\ Len(notes') = k + 1 /\ SubSeq(notes', 1, k) = notes
                       /\ notes'[k + 1].lead = r.lead_id
                       /\ notes'[k + 1].user = r.user
                       /\ notes'[k + 1].content = r.message
                       /\ r.message # <<>>
                       /\ leads[r.lead_id].assigned_to = r.user
                 /\ (r.pc = "log" /\ req'[h] # r)
                    => /\ notes' = notes /\ response'.code = 302
                       /\ Len(activities') = n + 1
                       /\ SubSeq(activities', 1, n) = activities
                       /\ activities'[n + 1].activity_type = "note"
                       /\ activities'[n + 1].lead = notes[k].lead
                       /\ activities'[n + 1].user = notes[k].user
                       /\ activities'[n + 1].message = notes[k].content
                       /\ notes[k].content = r.message
       /\ (response'.op = "add_lead_note" /\ response'.body = "empty")
          => notes' = notes /\ activities' = activities
       /\ Quiescent' => NotesMatched']_vars

\* C23 witness: the owner's note request was answered and its note is stored
C23_Witness ==
    /\ response.op = "add_lead_note" /\ response.body = "ok"
    /\ Quiescent
    /\ Len(notes) >= 1
    /\ notes[Len(notes)].content = <<"n">>
    /\ notes[Len(notes)].user = leads[notes[Len(notes)].lead].assigned_to

\* ---------------------------------------------------- get_lead_activities
\* the type filters a request may carry: none, a type of the enum, another word
FilterTypeInputs == {"", "status", "fax"}

\* order_by('-created_at'), views.py 612; Meta.ordering, models.py 87-88
RECURSIVE OrderByCreatedAtDesc(_)
\* mutant: oldest first
OrderByCreatedAtAsc(rows) ==
    IF rows = <<>> THEN <<>>
    ELSE LET i == CHOOSE k \in DOMAIN rows :
                    \A j \in DOMAIN rows : rows[k].created_at <= rows[j].created_at
             rest == [j \in 1..(Len(rows) - 1) |-> IF j < i THEN rows[j] ELSE rows[j + 1]]
         IN  <<rows[i]>> \o OrderByCreatedAtDesc(rest)

OrderByCreatedAtDesc(rows) ==
    IF rows = <<>> THEN <<>>
    ELSE LET i == CHOOSE k \in DOMAIN rows :
                    \A j \in DOMAIN rows : rows[k].created_at >= rows[j].created_at
             rest == [j \in 1..(Len(rows) - 1) |-> IF j < i THEN rows[j] ELSE rows[j + 1]]
         IN  <<rows[i]>> \o OrderByCreatedAtDesc(rest)

\* views.py 612-620: the lead's rows, newest first, of one type when the
\* filter names a type of the enum
FilteredActivities(lead_id, filter_type) ==
    LET OfLead(a) == a.lead = lead_id
        OfType(a) == a.activity_type = filter_type
        all == OrderByCreatedAtDesc(SelectSeq(activities, OfLead))
    IN  IF filter_type # "" /\ filter_type \in ACTIVITY_TYPES
        THEN SelectSeq(all, OfType)
        ELSE all

\* views.py 602-656: a lead that is missing or not the caller's raises Http404
\* inside the try, which the last except answers with 500
get_lead_activities(h, user, lead_id, filter_type) ==
    /\ req[h].pc = "idle"
    /\ UNCHANGED <<leads, activities, notes, clock, succeeded>>
    /\ IF ~OwnedLeadExists(lead_id, user)
       THEN Reply(h, Response("get_lead_activities", lead_id, 500, "error"))
       ELSE Reply(h, Response("get_lead_activities", lead_id, 200,
                              FilteredActivities(lead_id, filter_type)))

\* Requests arrive one at a time; the ledger of a lead may be read between them.
NextLedger ==
    \/ Next
    \/ /\ response = NoResponse
       /\ \E user \in Users, lead_id \in LeadIdInputs, filter_type \in FilterTypeInputs :
             get_lead_activities("h1", user, lead_id, filter_type)

SpecLedger == Init /\ [][NextLedger]_vars

\* C24: no step changes or removes a row of the ledger, rows are only added
\* at its end; get_lead_activities answers with rows of the lead in the
\* ledger, each once, every row newer than the one after it, and without a
\* filter with all of them.
C24_LedgerAppendOnly ==
    [][/\ Len(activities') >= Len(activities)
       /\ SubSeq(activities', 1, Len(activities)) = activities
       /\ (response'.op = "get_lead_activities" /\ response'.code = 200)
          => LET body == response'.body
                 id == response'.lead_id
                 mine == {j \in DOMAIN activities : activities[j].lead = id}
             IN  /\ \A i \in DOMAIN body :
                       \E j \in mine : activities[j] = body[i]
                 /\ \A i \in DOMAIN body : \A j \in DOMAIN body :
                       i < j => body[i].created_at > body[j].created_at
                 /\ \E filter_type \in FilterTypeInputs :
                       body = FilteredActivities(id, filter_type)
                 /\ \/ Len(body) = Cardinality(mine)
                    \/ \A i \in DOMAIN body : body[i].activity_type = "status"]_vars

\* C24 witness: the owner reads a ledger of an assignment, a stage change and
\* its action
C24_Witness ==
    /\ response.op = "get_lead_activities" /\ response.code = 200
    /\ Len(response.body) >= 3
    /\ response.body[1].message = <<"called">>
    /\ response.body[2].message[1] = "Stage changed from"
    /\ response.body[Len(response.body)].message[1] = "Lead assigned to"

\* ------------------------------------------- imports into a store in use
\* the rows of the files imported into a store in use: an email, a blank
\* email between blanks, an empty email, no email column, and a row whose
\* phone the store has
EmailRows ==
    {[full_name |-> <<"B">>, email |-> <<Blank, "b", "@", "x">>, phone |-> <<"6">>,
      source |-> KeyMissing],
     [full_name |-> <<"C">>, email |-> <<Blank>>, phone |-> <<"7">>,
      source |-> KeyMissing],
     [full_name |-> <<"D">>, email |-> <<>>, phone |-> <<"8">>,
      source |-> <<"w", "e", "b">>],
     [full_name |-> <<"E">>, email |-> KeyMissing, phone |-> <<"9">>,
      source |-> KeyMissing],
     [full_name |-> <<"A">>, email |-> <<"a", "@", "x">>, phone |-> <<"5">>,
      source |-> KeyMissing]}

RECURSIVE EmailFilesOfLength(_)
EmailFilesOfLength(n) ==
    IF n = 0 THEN {<<>>}
    ELSE {Append(file, row) : file \in EmailFilesOfLength(n - 1), row \in EmailRows}

\* the files imported into a store in use: up to MaxFileRows rows
EmailFiles == UNION {EmailFilesOfLength(n) : n \in 0..MaxFileRows}

\* The store holds a lead assigned to alice and its ledger row; imports arrive
\* one at a time, each handled to its end before the next.
NextImportOver ==
    \/ Deliver
    \/ /\ response = NoResponse
       /\ \/ \E rows \in EmailFiles :
                /\ Len(leads) + RowsAhead + Len(rows) <= MaxImported
                /\ ImportCsvStart("h1", "admin", TRUE, rows)
          \/ ImportCsvStart("h1", "admin", FALSE, <<>>)
          \/ \E user \in Users : Refused("h1", "import_csv", user, is_admin(user))
          \/ ImportCsvRow("h1")
          \/ ImportCsvCreate("h1")

SpecImportOver == InitOwned /\ [][NextImportOver]_vars

\* C25: no step of import_csv adds a ledger row or a note or changes a lead
\* the store has; a lead it adds has status new, no agent and no assigned_at,
\* contacted_at, awaiting_at or closed_at; the email of the lead a row
\* describes is null when the row's email without the blanks around it is
\* empty, that email otherwise.
C25_ImportBypassesLifecycle ==
    [][\A h \in Slots :
          LET r == req[h]
              n == Len(leads)
          IN  (r.op = "import_csv" \/ req'[h].op = "import_csv") =>
              /\ activities' = activities /\ notes' = notes
              /\ Len(leads') \in {n, n + 1}
              /\ SubSeq(leads', 1, n) = leads
              /\ Len(leads') = n + 1
                 => /\ r.pc = "create"
                    /\ leads'[n + 1].status = "new"
                    /\ leads'[n + 1].assigned_to = NoUser
                    /\ leads'[n + 1].assigned_at = Null
                    /\ leads'[n + 1].contacted_at = Null
                    /\ leads'[n + 1].awaiting_at = Null
                    /\ leads'[n + 1].closed_at = Null
                    /\ leads'[n + 1].email = r.row.email
                    /\ leads'[n + 1].email # <<>>
              /\ (r.pc = "row" /\ req'[h].pc = "create")
                 => LET email == Strip(RowGet(Head(r.rows), "email", <<>>))
                    IN  req'[h].row.email = IF email = <<>> THEN NoneValue ELSE email]_vars

\* C25 witness: an import into the store in use has added a lead with an
\* email and a lead without one, and the lead of alice is as it was
C25_Witness ==
    /\ response.op = "import_csv" /\ response.created_count >= 1
    /\ Len(leads) >= 3
    /\ leads[1].assigned_to = "alice" /\ leads[1].status = "assigned"
    /\ Len(activities) = 1
    /\ \E i \in LeadIds : leads[i].email = <<"b", "@", "x">> /\ leads[i].status = "new"
    /\ \E i \in LeadIds \ {1} : leads[i].email = NoneValue /\ leads[i].assigned_to = NoUser

\* a lead has the status new exactly when it has no agent
NewIffUnassigned ==
    \A id \in LeadIds : leads[id].status = "new" <=> leads[id].assigned_to = NoUser

\* C26: whatever way the requests interleave, an imported lead has the status
\* new exactly when it has no agent; no step gives a lead the status new
\* again or takes its agent away; a lead leaves new, and gets the status
\* assigned, only in the save of an assign_lead request for it.
C26_NewIffUnassigned ==
    [][/\ NewIffUnassigned /\ NewIffUnassigned'
       /\ \A id \in LeadIds :
             LET AssignSaves ==
                    \E h \in Slots : /\ req[h].op = "assign_lead" /\ req[h].pc = "save"
                                     /\ req[h].lead_id = id
             IN  /\ leads[id].status # "new" => leads'[id].status # "new"
                 /\ leads[id].assigned_to # NoUser => leads'[id].assigned_to # NoUser
                 /\ (leads[id].status = "new" /\ leads'[id].status # "new")
                    => AssignSaves /\ leads'[id].status = "assigned"
                 /\ (leads[id].status # "assigned" /\ leads'[id].status = "assigned")
                    => AssignSaves]_vars

\* C26 witness: the imported lead was assigned to alice, then to bob, and its
\* status moved on while two requests were being handled
C26_Witness ==
    /\ leads[1].status = "contacted" /\ leads[1].assigned_to = "bob"
    /\ \E i \in DOMAIN activities :
          activities[i].message = ReassignedMessage("alice", "bob")
    /\ req["h1"].pc # "idle" /\ req["h2"].pc # "idle"

====
